---- MODULE Spec2Model ----
(***************************************************************************)
(* A model of wotd.py: the Word-of-the-day archive splitter.               *)
(*                                                                         *)
(*   main                            the calendar driver (one thread)      *)
(*   run_wotd_processing_for_month   the month orchestrator (same thread)  *)
(*   process_one_day                 one pool thread per task              *)
(*                                                                         *)
(* The wiki is the environment.  The model keeps the pages of the month    *)
(* being processed: the source archive page (src) and the day pages of     *)
(* that month (pages); they are chosen when the month is entered.          *)
(* Labels such as "L86" are line numbers of src/wotd.py.                   *)
(***************************************************************************)
EXTENDS Integers, Sequences, FiniteSets, TLC

\* ------------------------------------------------------------ constants
START_YEAR == 2006
START_MONTH == 1
END_YEAR == 2011
END_MONTH == 12
DEFAULT_DRY_RUN == FALSE

\* ------------------------------------------------------------ bounds
\* longest month text, in tokens
MaxTokens == 4

\* The day numerals that occur in headings.  A text of MaxTokens tokens has
\* at most two sections with content, so two numerals give every pattern of
\* equal and distinct days.
Days == {"1", "2"}

\* The months whose source archive page may exist on the wiki; the source
\* page of every other month of the range is absent.
SourceMonths == {<<2010, 4>>, <<2010, 5>>}

\* The clock values main may read: before the range, its first month, the
\* scenario of the specification (March 2010, so that April 2010 is the
\* first future month), and the last month.
NowChoices ==
    { [year |-> START_YEAR - 1, month |-> 12],
      [year |-> START_YEAR, month |-> START_MONTH],
      [year |-> 2010, month |-> 3],
      [year |-> END_YEAR, month |-> END_MONTH] }

\* ------------------------------------------------------------ wiki text
\* A text is a sequence of tokens: a heading "== N ==" (h = TRUE, s = the
\* numeral N) or a chunk of other text (h = FALSE).  The chunks: whitespace,
\* text without the marker, and the marker in two letter cases.
Chunks == {" ", "junk", "{{wotd", "{{WOTD"}
Tokens == [h : {TRUE}, s : Days] \cup [h : {FALSE}, s : Chunks]
Texts == UNION {[1..n -> Tokens] : n \in 0..MaxTokens}

MonthNames ==
    <<"January", "February", "March", "April", "May", "June", "July",
      "August", "September", "October", "November", "December">>

\* re.split(r'==\s*(\d+)\s*==', wikitext): the text before the first
\* heading, then for every heading its numeral and the text up to the next
\* heading.  The result has 2 * (number of headings) + 1 elements.
RECURSIVE Split(_)
Split(text) ==
    IF text = <<>> THEN << <<>> >>
    ELSE LET t == text[Len(text)]
             r == Split(SubSeq(text, 1, Len(text) - 1))
         IN IF t.h THEN r \o << t.s, <<>> >>
            ELSE [r EXCEPT ![Len(r)] = @ \o <<t.s>>]

\* str.strip(): leading and trailing whitespace removed
RECURSIVE LStrip(_)
LStrip(c) ==
    IF c # <<>> /\ c[1] = " " THEN LStrip(Tail(c)) ELSE c
RECURSIVE RStrip(_)
RStrip(c) ==
    IF c # <<>> /\ c[Len(c)] = " " THEN RStrip(SubSeq(c, 1, Len(c) - 1)) ELSE c
Strip_none(c) == c
Strip(c) == LStrip(RStrip(c))

\* str.lower()
Lower(c) == [i \in 1..Len(c) |-> IF c[i] = "{{WOTD" THEN "{{wotd" ELSE c[i]]

IsValidContent_nonempty(content) == content # <<>>

\* content and '{{wotd' in content.lower()
IsValidContent(content) ==
    content # <<>> /\ \E i \in 1..Len(content) : Lower(content)[i] = "{{wotd"

\* The loop of lines 97-110: tasks and was_section_skipped after the
\* sections with 0-based indices i, i + 1 for i = 1, 3, ...
RECURSIVE BuildTasks(_, _, _, _, _)
BuildTasks(sections, k, year, month_name, dry_run) ==
    \* k: number of headings handled; section k is at 2k (day), 2k + 1 (content)
    IF k = 0 THEN [tasks |-> <<>>, was_section_skipped |-> FALSE]
    ELSE LET r == BuildTasks(sections, k - 1, year, month_name, dry_run)
             day == sections[2 * k]
             content == Strip(sections[2 * k + 1])
         IN IF IsValidContent(content)
            THEN [r EXCEPT !.tasks = Append(@,
                     [year |-> year, month_name |-> month_name, day |-> day,
                      content |-> content, dry_run |-> dry_run])]
            ELSE IF content # <<>>
                 THEN [r EXCEPT !.was_section_skipped = TRUE]
                 ELSE r

NumHeadings(sections) == (Len(sections) - 1) \div 2


\* ------------------------------------------------------------ state
VARIABLES
    argv_live,            \* '-live' in sys.argv
    now,                  \* datetime.now() as read by main
    is_dry_run,           \* main's local
    year, month_num,      \* main's loop variables
    mpc,                  \* where the main thread is
    visited,              \* the months the orchestrator was called for, in order
    dry_run,              \* the orchestrator's parameter
    src,                  \* the month's source archive page on the wiki
    pages,                \* the month's day pages on the wiki, by day numeral
    pages0,               \* pages when the month was entered
    wikitext,             \* the orchestrator's local: the source text as read
    tasks,                \* the orchestrator's local
    was_section_skipped,  \* the orchestrator's local
    archived,             \* the save of the source page: "none", "ok", "failed"
    narchive,             \* the number of saves of the source page in this call
    run,                  \* which run over the month this is, and what the run before left
    w,                    \* the pool threads, one per task
    print_lock            \* 0: free, i: held by pool thread i

vars == <<argv_live, now, is_dry_run, year, month_num, mpc, visited, dry_run,
          src, pages, pages0, wikitext, tasks, was_section_skipped, archived,
          narchive, run,
          w, print_lock>>

mainVars == <<argv_live, now, is_dry_run, year, month_num, visited, run>>
wikiVars == <<src, pages, pages0>>
monthLocals == <<dry_run, wikitext, tasks, was_section_skipped>>

\* the first run over a month: no run before it
FirstRun == [n |-> 1, days |-> {}, archived |-> FALSE]

\* ------------------------------------------------------------ the wiki
Levels == {"", "sysop"}
AbsentPage == [exists |-> FALSE, text |-> <<>>, edit |-> "", move |-> ""]
\* a page that exists has an earlier text; a page protected against moves
\* only is left out
ExistingPages ==
    {pg \in [exists : {TRUE}, text : {<<"old">>}, edit : Levels, move : Levels] :
        pg.move = "sysop" => pg.edit = "sysop"}
PageStates == {AbsentPage} \cup ExistingPages

\* The source pages a month may have on the wiki.
SourceChoices(y, m) ==
    {[exists |-> FALSE, text |-> <<>>]}
    \cup (IF <<y, m>> \in SourceMonths
          THEN [exists : {TRUE}, text : Texts] ELSE {})

\* the days whose section of the text is a valid one
RECURSIVE ValidDays(_, _)
ValidDays(sections, k) ==
    IF k = 0 THEN {}
    ELSE ValidDays(sections, k - 1)
         \cup (IF IsValidContent(Strip(sections[2 * k + 1]))
               THEN {sections[2 * k]} ELSE {})

\* The day pages next to a source text: any state for the target page of a
\* valid section, the other pages of the month are taken absent.
PageChoices(text) ==
    LET sections == Split(text)
        ds == ValidDays(sections, NumHeadings(sections))
    IN {pg \in [Days -> PageStates] : \A d \in Days \ ds : pg[d] = AbsentPage}

\* the orchestrator's locals and the wiki window outside a call
NoSource == [exists |-> FALSE, text |-> <<>>]
NoPages == [d \in Days |-> AbsentPage]

\* ------------------------------------------------------------ decisions
\* line 44: if not dry_run (create)
CreateAllowed_always(dry) == TRUE
CreateAllowed(dry) == ~dry

\* line 58: if not dry_run (protect)
ProtectAllowed(dry) == ~dry

\* line 62: current_protection.get('edit', (None,))[0] != 'sysop'
NeedsProtect_always(page) == TRUE
NeedsProtect_never(page) == FALSE
NeedsProtect(page) == page.edit # "sysop"

\* line 86: if not source_page.exists()
SourceMissing(page) == ~page.exists

\* line 112: if not tasks
NoTasks_never(ts) == FALSE
NoTasks(ts) == ts = <<>>

\* line 129: if was_section_skipped ... else
ArchiveAllowed_always(skipped) == TRUE
ArchiveAllowed_nofailure(skipped) ==
    /\ ~skipped
    /\ \A i \in 1..Len(w) : w[i].saved # "failed" /\ w[i].protected # "failed"
ArchiveAllowed(skipped) == ~skipped

\* line 135: if not dry_run (archive)
ArchiveWriteAllowed(dry) == ~dry

\* lines 123-124: leaving the with block waits for every submitted task
AllTasksComplete_none(ws) == TRUE
AllTasksComplete_first(ws) == ws = <<>> \/ ws[1].pc = "done"
AllTasksComplete(ws) == \A i \in 1..Len(ws) : ws[i].pc = "done"

\* line 169
IsFuture_year(y, m, t) == y > t.year
IsFuture(y, m, t) == y > t.year \/ (y = t.year /\ m > t.month)

\* lines 165-166
MonthStartNum(y) == IF y = START_YEAR THEN START_MONTH ELSE 1
MonthEndNum(y) == IF y = END_YEAR THEN END_MONTH ELSE 12

\* line 134: the archive template; it has no heading, and its lower case
\* form contains the marker
NewContent_section == <<[h |-> TRUE, s |-> "1"], [h |-> FALSE, s |-> "{{WOTD"]>>
NewContent == <<[h |-> FALSE, s |-> "{{WOTD"]>>

\* ------------------------------------------------------------ pool threads
\* lines 18-30: a thread that has taken its task is at its first output
\* page_exists and current_protection are the task's locals ("?": not yet
\* assigned); saved and protected are the outcomes of its save and protect
\* calls, nsave and nprotect the numbers of those calls
NewWorker ==
    [pc |-> "print", after |-> "L35", page_exists |-> "?",
     current_protection |-> "?", saved |-> "none", protected |-> "none",
     nsave |-> 0, nprotect |-> 0]

\* line 53: return, after a save that raised
AfterCreateFailure_protect == "L58"
AfterCreateFailure_retry == "L44"
AfterCreateFailure == "done"

\* leaving a with print_lock block releases the lock
Released_kept(i) == i
Released(i) == 0

\* a backend call returns normally or raises pywikibot.Error; in the run
\* after the first one every call returns normally
BackendOutcomes == IF run.n = 1 THEN BOOLEAN ELSE {TRUE}

\* "with print_lock: pywikibot.output(...)" and then continue at `next`
ToPrint(i, next) == w' = [w EXCEPT ![i].pc = "print", ![i].after = next]

\* entering a with print_lock block
AcquirePrint(i) ==
    /\ i \in 1..Len(w) /\ w[i].pc = "print"
    /\ print_lock = 0
    /\ print_lock' = i
    /\ w' = [w EXCEPT ![i].pc = "printing"]
    /\ UNCHANGED <<mainVars, mpc, monthLocals, wikiVars, archived, narchive>>

\* leaving it
ReleasePrint(i) ==
    /\ i \in 1..Len(w) /\ w[i].pc = "printing"
    /\ print_lock = i
    /\ print_lock' = Released(i)
    /\ w' = [w EXCEPT ![i].pc = w[i].after]
    /\ UNCHANGED <<mainVars, mpc, monthLocals, wikiVars, archived, narchive>>

\* lines 34-43, 54-56: the existence check
Exists(i) ==
    /\ i \in 1..Len(w) /\ w[i].pc = "L35"
    /\ IF ~pages[tasks[i].day].exists
       THEN w' = [w EXCEPT ![i].pc = "print", ![i].after = "L44",
                           ![i].page_exists = "no"]
       ELSE w' = [w EXCEPT ![i].pc = "print", ![i].after = "L58",
                           ![i].page_exists = "yes"]
    /\ UNCHANGED <<mainVars, mpc, monthLocals, wikiVars, archived, narchive, print_lock>>

\* lines 44-53: create the page; the save succeeds or raises
Create(i) ==
    /\ i \in 1..Len(w) /\ w[i].pc = "L44"
    /\ IF CreateAllowed(tasks[i].dry_run)
       THEN \E ok \in BackendOutcomes :
              IF ok
              THEN /\ pages' = [pages EXCEPT ![tasks[i].day].exists = TRUE,
                                             ![tasks[i].day].text = tasks[i].content]
                   /\ w' = [w EXCEPT ![i].pc = "print", ![i].after = "L58",
                                     ![i].saved = "ok",
                                     ![i].nsave = w[i].nsave + 1]
              ELSE /\ pages' = pages
                   /\ w' = [w EXCEPT ![i].pc = "print",
                                     ![i].after = AfterCreateFailure,
                                     ![i].saved = "failed",
                                     ![i].nsave = w[i].nsave + 1]
       ELSE /\ pages' = pages
            /\ w' = [w EXCEPT ![i].pc = "L58"]
    /\ UNCHANGED <<mainVars, mpc, monthLocals, src, pages0, archived, narchive, print_lock>>

\* lines 58-62, 67-75: the protection query; it answers or raises
Protection(i) ==
    /\ i \in 1..Len(w) /\ w[i].pc = "L58"
    /\ IF ProtectAllowed(tasks[i].dry_run)
       THEN \E ok \in BackendOutcomes :
              IF ok
              THEN IF NeedsProtect(pages[tasks[i].day])
                   THEN w' = [w EXCEPT ![i].pc = "L64",
                                ![i].current_protection = pages[tasks[i].day].edit]
                   ELSE w' = [w EXCEPT ![i].pc = "print", ![i].after = "done",
                                ![i].current_protection = pages[tasks[i].day].edit]
              ELSE w' = [w EXCEPT ![i].pc = "print", ![i].after = "done",
                                  ![i].current_protection = "raised"]
       ELSE ToPrint(i, "done")
    /\ UNCHANGED <<mainVars, mpc, monthLocals, wikiVars, archived, narchive, print_lock>>

\* lines 63-66, 70-72: protect the page; the call succeeds or raises
Protect(i) ==
    /\ i \in 1..Len(w) /\ w[i].pc = "L64"
    /\ \E ok \in BackendOutcomes :
         IF ok
         THEN /\ pages' = [pages EXCEPT ![tasks[i].day].edit = "sysop",
                                        ![tasks[i].day].move = "sysop"]
              /\ w' = [w EXCEPT ![i].pc = "print", ![i].after = "done",
                                ![i].protected = "ok",
                                ![i].nprotect = w[i].nprotect + 1]
         ELSE /\ pages' = pages
              /\ w' = [w EXCEPT ![i].pc = "print", ![i].after = "done",
                                ![i].protected = "failed",
                                ![i].nprotect = w[i].nprotect + 1]
    /\ UNCHANGED <<mainVars, mpc, monthLocals, src, pages0, archived, narchive, print_lock>>

process_one_day(i) ==
    \/ AcquirePrint(i) \/ ReleasePrint(i)
    \/ Exists(i) \/ Create(i) \/ Protection(i) \/ Protect(i)

\* ------------------------------------------------------------ orchestrator
\* lines 78-121: fetch the source page, split it and build the tasks
Fetch ==
    /\ mpc = "L86"
    /\ print_lock = 0
    /\ IF SourceMissing(src)
       THEN /\ mpc' = "ret"
            /\ UNCHANGED <<wikitext, tasks, was_section_skipped>>
       ELSE LET sections == Split(src.text)
                built == BuildTasks(sections, NumHeadings(sections), year,
                                    MonthNames[month_num], dry_run)
            IN /\ wikitext' = src.text
               /\ tasks' = built.tasks
               /\ was_section_skipped' = built.was_section_skipped
               /\ mpc' = IF NoTasks(built.tasks) THEN "ret" ELSE "L123"
    /\ UNCHANGED <<mainVars, dry_run, wikiVars, archived, narchive, w, print_lock>>

\* lines 123-124: executor.map submits every task to a pool of len(tasks) threads
Dispatch ==
    /\ mpc = "L123"
    /\ w' = [i \in 1..Len(tasks) |-> NewWorker]
    /\ mpc' = "L124"
    /\ UNCHANGED <<mainVars, monthLocals, wikiVars, archived, narchive, print_lock>>

\* line 124-127: the with block is left when every task has completed
Join ==
    /\ mpc = "L124"
    /\ AllTasksComplete(w)
    /\ print_lock = 0
    /\ mpc' = "L129"
    /\ UNCHANGED <<mainVars, monthLocals, wikiVars, archived, narchive, w, print_lock>>

\* lines 129-147: the archive step; the save succeeds or raises
Archive ==
    /\ mpc = "L129"
    /\ print_lock = 0
    /\ IF ArchiveAllowed(was_section_skipped) /\ ArchiveWriteAllowed(dry_run)
       THEN \E ok \in BackendOutcomes :
              /\ src' = IF ok THEN [src EXCEPT !.text = NewContent] ELSE src
              /\ archived' = IF ok THEN "ok" ELSE "failed"
              /\ narchive' = narchive + 1
       ELSE UNCHANGED <<src, archived, narchive>>
    /\ mpc' = "ret"
    /\ UNCHANGED <<mainVars, monthLocals, pages, pages0, w, print_lock>>

run_wotd_processing_for_month ==
    \/ Fetch \/ Dispatch \/ Join \/ Archive
    \/ \E i \in 1..Len(w) : process_one_day(i)

\* ------------------------------------------------------------ main
\* lines 151-162: the mode, the login, the clock
Start ==
    /\ mpc = "L151"
    /\ is_dry_run' = IF argv_live THEN FALSE ELSE DEFAULT_DRY_RUN
    /\ year' = START_YEAR
    /\ mpc' = "L164"
    /\ argv_live' = FALSE           \* line 155: sys.argv.remove('-live')
    /\ UNCHANGED <<now, month_num, visited, run, monthLocals, wikiVars,
                   archived, narchive, w, print_lock>>

\* lines 164-166, 182: the head of the loop over the years
YearLoop ==
    /\ mpc = "L164"
    /\ IF year > END_YEAR
       THEN mpc' = "finished" /\ UNCHANGED month_num
       ELSE mpc' = "L168" /\ month_num' = MonthStartNum(year)
    /\ UNCHANGED <<argv_live, now, run, is_dry_run, year, visited, monthLocals,
                   wikiVars, archived, narchive, w, print_lock>>

\* lines 168-180: the head of the loop over the months; the call
MonthLoop ==
    /\ mpc = "L168"
    /\ IF month_num > MonthEndNum(year)
       THEN /\ year' = year + 1
            /\ mpc' = "L164"
            /\ UNCHANGED <<visited, monthLocals, wikiVars, archived, narchive, w>>
       ELSE IF IsFuture(year, month_num, now)
       THEN /\ mpc' = "stopped"
            /\ UNCHANGED <<year, visited, monthLocals, wikiVars, archived, narchive, w>>
       ELSE /\ mpc' = "L86"
            /\ visited' = Append(visited, <<year, month_num>>)
            /\ dry_run' = is_dry_run
            /\ \E s \in SourceChoices(year, month_num) :
                 /\ src' = s
                 /\ \E pg \in PageChoices(s.text) : pages' = pg /\ pages0' = pg
            /\ UNCHANGED <<year, wikitext, tasks, was_section_skipped, archived, narchive, w>>
    /\ UNCHANGED <<argv_live, now, run, is_dry_run, month_num, print_lock>>

\* line 180, back in main: the call has returned, its locals are gone
Return ==
    /\ mpc = "ret"
    /\ month_num' = month_num + 1
    /\ mpc' = "L168"
    /\ dry_run' = FALSE /\ wikitext' = <<>> /\ tasks' = <<>>
    /\ was_section_skipped' = FALSE /\ archived' = "none" /\ narchive' = 0 /\ w' = <<>>
    /\ src' = NoSource /\ pages' = NoPages /\ pages0' = NoPages
    /\ UNCHANGED <<argv_live, now, run, is_dry_run, year, visited, print_lock>>

main == Start \/ YearLoop \/ MonthLoop \/ Return

\* ------------------------------------------------------------ specifications
\* The program: main started with or without '-live'.
Init ==
    /\ argv_live \in BOOLEAN
    /\ now \in NowChoices
    /\ is_dry_run = DEFAULT_DRY_RUN
    /\ year = START_YEAR /\ month_num = START_MONTH
    /\ mpc = "L151"
    /\ visited = <<>>
    /\ dry_run = FALSE /\ wikitext = <<>> /\ tasks = <<>>
    /\ was_section_skipped = FALSE /\ archived = "none" /\ narchive = 0 /\ w = <<>>
    /\ src = NoSource /\ pages = NoPages /\ pages0 = NoPages
    /\ print_lock = 0
    /\ run = FirstRun

Next ==
    \/ Start \/ YearLoop \/ MonthLoop \/ Return
    \/ Fetch \/ Dispatch \/ Join \/ Archive
    \/ \E i \in 1..Len(w) : AcquirePrint(i)
    \/ \E i \in 1..Len(w) : ReleasePrint(i)
    \/ \E i \in 1..Len(w) : Exists(i)
    \/ \E i \in 1..Len(w) : Create(i)
    \/ \E i \in 1..Len(w) : Protection(i)
    \/ \E i \in 1..Len(w) : Protect(i)

Spec == Init /\ [][Next]_vars

\* One call of run_wotd_processing_for_month(site, year, month_name, dry_run)
\* with either value of dry_run, for April 2010.
InitMonth ==
    /\ argv_live = FALSE
    /\ now = [year |-> END_YEAR, month |-> END_MONTH]
    /\ is_dry_run = FALSE
    /\ year = 2010 /\ month_num = 4
    /\ mpc = "L86"
    /\ visited = << <<year, month_num>> >>
    /\ dry_run \in BOOLEAN
    /\ wikitext = <<>> /\ tasks = <<>>
    /\ was_section_skipped = FALSE /\ archived = "none" /\ narchive = 0 /\ w = <<>>
    /\ src \in SourceChoices(year, month_num)
    /\ pages \in PageChoices(src.text) /\ pages0 = pages
    /\ print_lock = 0
    /\ run = FirstRun

NextMonth ==
    \/ Fetch \/ Dispatch \/ Join \/ Archive
    \/ \E i \in 1..Len(w) : AcquirePrint(i)
    \/ \E i \in 1..Len(w) : ReleasePrint(i)
    \/ \E i \in 1..Len(w) : Exists(i)
    \/ \E i \in 1..Len(w) : Create(i)
    \/ \E i \in 1..Len(w) : Protection(i)
    \/ \E i \in 1..Len(w) : Protect(i)

SpecMonth == InitMonth /\ [][NextMonth]_vars

\* ------------------------------------------------------------ sequential runs
\* process_one_day run alone, from the existence check to its return: the
\* results it may have on the day pages pg.
ProtectStage(t, pg, saved) ==
    IF ProtectAllowed(t.dry_run)
    THEN {[saved |-> saved, protected |-> "none", pages |-> pg]}
         \cup (IF NeedsProtect(pg[t.day])
               THEN {[saved |-> saved, protected |-> "ok",
                      pages |-> [pg EXCEPT ![t.day].edit = "sysop",
                                           ![t.day].move = "sysop"]],
                     [saved |-> saved, protected |-> "failed", pages |-> pg]}
               ELSE {})
    ELSE {[saved |-> saved, protected |-> "none", pages |-> pg]}

DayRun(t, pg) ==
    IF ~pg[t.day].exists
    THEN IF CreateAllowed(t.dry_run)
         THEN {[saved |-> "failed", protected |-> "none", pages |-> pg]}
              \cup ProtectStage(t, [pg EXCEPT ![t.day].exists = TRUE,
                                              ![t.day].text = t.content], "ok")
         ELSE ProtectStage(t, pg, "none")
    ELSE ProtectStage(t, pg, "none")

\* The tasks ts[1..k] run strictly one after the other from the pages pg:
\* what each task did, and the pages afterwards.
RECURSIVE SeqRuns(_, _, _)
SeqRuns(ts, k, pg) ==
    IF k = 0 THEN {[out |-> <<>>, pages |-> pg]}
    ELSE UNION {
           {[out |-> Append(r.out, [saved |-> d.saved, protected |-> d.protected]),
             pages |-> d.pages] : d \in DayRun(ts[k], r.pages)}
           : r \in SeqRuns(ts, k - 1, pg)}

\* ------------------------------------------------------------ the text, read directly
\* The pairs of a month text: one per heading, with the trimmed content.
Pairs(text) ==
    LET sections == Split(text)
    IN [k \in 1..NumHeadings(sections) |->
          [day |-> sections[2 * k], content |-> Strip(sections[2 * k + 1])]]

ValidPairs(text) ==
    LET p == Pairs(text)
    IN {k \in 1..Len(p) : IsValidContent(p[k].content)}
InvalidPairs(text) ==
    LET p == Pairs(text)
    IN {k \in 1..Len(p) : p[k].content # <<>> /\ ~IsValidContent(p[k].content)}

\* some backend write was issued in this call of the orchestrator
WriteIssued ==
    \/ archived # "none"
    \/ \E i \in 1..Len(w) : w[i].saved # "none" \/ w[i].protected # "none"

\* the wiki is as it was when the month was entered
WikiUntouched ==
    /\ pages = pages0
    /\ (mpc # "L86" /\ src.exists) => src.text = wikitext

Running(i) == w[i].pc # "done"

\* ------------------------------------------------------------ claims
\* C1: with dry_run active no backend write is ever issued: no save of a day
\* page, no protect call, no save of the source page, and the wiki stays as
\* it was, whatever the pages' existence, protection and the sections.
DryRunNoWrite == dry_run => (~WriteIssued /\ WikiUntouched)

\* a dry run that reached its end with two valid sections, none invalid, and
\* a target page that is absent and unprotected: every write had its occasion
DryRunNoWrite_witness ==
    /\ dry_run /\ mpc = "ret" /\ Len(w) = 2 /\ ~was_section_skipped
    /\ \E i \in 1..Len(w) : ~pages0[tasks[i].day].exists

\* C2: a run of main started without '-live' runs every month in dry-run
\* mode: the mode main leaves its first lines with is dry-run whenever the
\* flag was absent.
NoLiveFlagMeansDryRun ==
    [][(mpc = "L151" /\ ~argv_live) => is_dry_run']_vars

\* C3 as stated: for a month processed live whose source page exists, the
\* rewrite of the source page is attempted iff no pair of the split was
\* invalid.
ArchiveIffNoInvalidPair ==
    (mpc = "ret" /\ ~dry_run /\ src.exists)
        => (archived # "none" <=> InvalidPairs(wikitext) = {})

\* C3 amended: ... iff no pair of the split was invalid and at least one
\* pair was valid.
ArchiveIffAllValidAndSome ==
    (mpc = "ret" /\ ~dry_run /\ src.exists)
        => (archived # "none"
              <=> (InvalidPairs(wikitext) = {} /\ ValidPairs(wikitext) # {}))

\* a live month with two valid pairs, none invalid, whose rewrite was attempted
ArchiveIffAllValidAndSome_witness ==
    /\ mpc = "ret" /\ ~dry_run /\ src.exists
    /\ Cardinality(ValidPairs(wikitext)) = 2 /\ InvalidPairs(wikitext) = {}
    /\ archived # "none"

\* C4: whenever the source page has been overwritten, the target page of
\* every valid day of the month exists.
ArchivedOnlyIfAllPagesExist ==
    archived = "ok" => \A i \in 1..Len(tasks) : pages[tasks[i].day].exists

\* C5: the archive decision, and any save of the source page, is taken only
\* after every dispatched day-task has completed, succeeded or failed.
JoinBarrier ==
    (mpc \in {"L129", "ret"} \/ archived # "none")
        => \A i \in 1..Len(w) : ~Running(i)

\* the source page was saved after two tasks, one of which failed locally
JoinBarrier_witness ==
    /\ archived = "ok" /\ Len(w) = 2
    /\ \E i \in 1..Len(w) : w[i].saved = "failed"
    /\ \E i \in 1..Len(w) : w[i].protected = "ok"

\* C6: a live task whose target page already exists with edit protection at
\* the elevated level performs no backend write, and leaves the page as it is.
SecondRunWritesNothing ==
    \A i \in 1..Len(w) :
        (~tasks[i].dry_run /\ pages0[tasks[i].day].exists
            /\ pages0[tasks[i].day].edit = "sysop")
        => (w[i].saved = "none" /\ w[i].protected = "none"
            /\ pages[tasks[i].day] = pages0[tasks[i].day])

\* a live task has run to its end on a page that existed and was protected
SecondRunWritesNothing_witness ==
    \E i \in 1..Len(w) :
        /\ ~tasks[i].dry_run /\ w[i].pc = "done"
        /\ pages0[tasks[i].day].exists /\ pages0[tasks[i].day].edit = "sysop"

\* C7: for every month text, what the concurrently dispatched tasks did
\* (the writes of each task) and the pages they leave are what some strictly
\* sequential run of the same tasks from the same pages does.
ConcurrentEqualsSequential ==
    mpc = "L129"
        => [out |-> [i \in 1..Len(w) |->
                       [saved |-> w[i].saved, protected |-> w[i].protected]],
            pages |-> pages] \in SeqRuns(tasks, Len(tasks), pages0)

\* the months of the configured range in calendar order
NumRangeMonths == ((END_YEAR - START_YEAR) * 12) + END_MONTH - START_MONTH + 1
RangeMonth(k) ==
    <<START_YEAR + ((START_MONTH - 1 + k - 1) \div 12),
      ((START_MONTH - 1 + k - 1) % 12) + 1>>
Later(ym, t) == (ym[1] * 12) + ym[2] > (t.year * 12) + t.month
NotLaterCount(t) == Cardinality({k \in 1..NumRangeMonths : ~Later(RangeMonth(k), t)})

\* C8: main calls the orchestrator for the months of the range in calendar
\* order, once each, never for a month later than now; it stops at the
\* first later month, and when it has stopped or finished, every month of
\* the range that is not later than now has been visited.  (visited changes
\* only in the call, so its months are compared where the call is made and
\* where main ends.)
CalendarStop ==
    /\ Len(visited) <= NumRangeMonths
    /\ mpc \in {"L86", "stopped", "finished"} =>
          \A k \in 1..Len(visited) :
              visited[k] = RangeMonth(k) /\ ~Later(visited[k], now)
    /\ mpc \in {"stopped", "finished"} => Len(visited) = NotLaterCount(now)
    /\ mpc = "stopped" =>
          /\ <<year, month_num>> = RangeMonth(Len(visited) + 1)
          /\ Later(<<year, month_num>>, now)
    /\ mpc = "finished" => Len(visited) = NumRangeMonths

\* now = March 2010: main has stopped at April 2010 after the 51 months
\* from January 2006 to March 2010
CalendarStop_witness ==
    /\ mpc = "stopped" /\ now = [year |-> 2010, month |-> 3]
    /\ year = 2010 /\ month_num = 4
    /\ Len(visited) = 51 /\ visited[51] = <<2010, 3>>

\* C9: every running day-task belongs to the month main is in, and runs
\* only while main waits in the pool block of that month; when a month is
\* entered, and when its archive step runs, no day-task is running.
MonthsNeverConcurrent ==
    \A i \in 1..Len(w) :
        Running(i) =>
            /\ mpc = "L124"
            /\ tasks[i].year = year
            /\ tasks[i].month_name = MonthNames[month_num]
            /\ visited[Len(visited)] = <<year, month_num>>

\* two day-tasks of May 2010 are running, after April 2010 was finished
MonthsNeverConcurrent_witness ==
    /\ year = 2010 /\ month_num = 5 /\ Len(w) = 2
    /\ \A i \in 1..Len(w) : Running(i) /\ w[i].pc # "print"
    /\ visited[Len(visited) - 1] = <<2010, 4>>

\* C10: when the source page does not exist, or the split yields no valid
\* pair, the orchestrator returns without dispatching a day-task and without
\* a backend write: no page created or protected, the source page unchanged.
AbortedMonthWritesNothing ==
    (mpc # "L86" /\ (~src.exists \/ ValidPairs(wikitext) = {}))
        => (mpc = "ret" /\ w = <<>> /\ tasks = <<>>
            /\ ~WriteIssued /\ WikiUntouched)

\* a live month whose only pair is invalid has returned
AbortedMonthWritesNothing_witness ==
    /\ mpc = "ret" /\ ~dry_run /\ src.exists
    /\ ValidPairs(wikitext) = {} /\ InvalidPairs(wikitext) # {}

\* used with C7: the tasks of the month have pairwise distinct target pages
DistinctTargets ==
    \A i, j \in 1..Len(tasks) : i # j => tasks[i].day # tasks[j].day
ConcurrentEqualsSequentialDistinct ==
    DistinctTargets => ConcurrentEqualsSequential

\* ------------------------------------------------------------ failures
\* task i is the only task of the month for its day
OwnDay(i) == \A j \in 1..Len(tasks) : j # i => tasks[j].day # tasks[i].day

\* a backend call of task i raised
Failed(i) ==
    \/ w[i].saved = "failed" \/ w[i].protected = "failed"
    \/ w[i].current_protection = "raised"

\* C11: a backend failure in one day's task is caught inside that task: the
\* pool is left with every task complete, each task of another day did to
\* its own page what it does when run alone from the pages as the month
\* found them, and the archive is decided by the skipped flag alone.
FailureLocality ==
    \A i \in 1..Len(w) :
        (mpc \in {"L129", "ret"} /\ Failed(i)) =>
            /\ \A j \in 1..Len(w) : w[j].pc = "done"
            /\ \A j \in 1..Len(w) :
                 (j # i /\ OwnDay(j)) =>
                     \E d \in DayRun(tasks[j], pages0) :
                         /\ d.saved = w[j].saved
                         /\ d.protected = w[j].protected
                         /\ d.pages[tasks[j].day] = pages[tasks[j].day]
            /\ (mpc = "ret" /\ ~dry_run)
                   => (archived # "none" <=> ~was_section_skipped)

\* the save of the first day's page raised; the second day's page was
\* created and protected and the source page was archived
FailureLocality_witness ==
    /\ mpc = "ret" /\ Len(w) = 2 /\ OwnDay(1)
    /\ w[1].saved = "failed"
    /\ w[2].saved = "ok" /\ w[2].protected = "ok"
    /\ archived = "ok"

\* ------------------------------------------------------------ the splitter
\* The month text read position by position, without the split: the
\* positions of its headings in order, and for a heading at p the positions
\* of the text between it and the next heading.
HeadingPositions(text) ==
    LET IsHeading(p) == text[p].h
    IN SelectSeq([p \in 1..Len(text) |-> p], IsHeading)
NextHeading(text, p) ==
    LET later == {q \in (p + 1)..Len(text) : text[q].h}
    IN IF later = {} THEN Len(text) + 1
       ELSE CHOOSE q \in later : \A r \in later : q <= r
BlankAfter(text, p) ==
    \A q \in (p + 1)..(NextHeading(text, p) - 1) : text[q].s = " "
MarkerAfter(text, p) ==
    \E q \in (p + 1)..(NextHeading(text, p) - 1) : text[q].s \in {"{{wotd", "{{WOTD"}
MarkedHeadingPositions(text) ==
    LET IsMarked(p) == text[p].h /\ MarkerAfter(text, p)
    IN SelectSeq([p \in 1..Len(text) |-> p], IsMarked)

\* the orchestrator has split the text and built the tasks, and no more
FetchDone == mpc = "L123" \/ (mpc = "ret" /\ w = <<>> /\ src.exists)

\* C12: for every month text with N day headings the split yields N pairs,
\* hence at most N, whose days are the headings' numerals in the order of
\* the headings; the tasks are the pairs whose content has the marker, in
\* that order; a pair whose content is blank is dropped without setting
\* was_section_skipped, and the flag is set exactly when some pair has a
\* content that is not blank and has no marker.
SplitterBound ==
    FetchDone =>
        LET heads == HeadingPositions(wikitext)
            marked == MarkedHeadingPositions(wikitext)
            sections == Split(wikitext)
        IN /\ NumHeadings(sections) <= Len(heads)
           /\ \A k \in 1..NumHeadings(sections) :
                 sections[2 * k] = wikitext[heads[k]].s
           /\ Len(tasks) = Len(marked)
           /\ \A k \in 1..Len(tasks) : tasks[k].day = wikitext[marked[k]].s
           /\ was_section_skipped
                 <=> \E k \in 1..Len(heads) :
                        /\ ~BlankAfter(wikitext, heads[k])
                        /\ ~MarkerAfter(wikitext, heads[k])

\* a text of two headings: a section of white space only, which is dropped
\* and not counted, and a section with the marker
SplitterBound_witness ==
    /\ mpc = "L123" /\ Len(tasks) = 1 /\ ~was_section_skipped
    /\ Len(HeadingPositions(wikitext)) = 2
    /\ \E p \in 1..(Len(wikitext) - 1) :
         wikitext[p].h /\ ~wikitext[p + 1].h /\ BlankAfter(wikitext, p)

\* ------------------------------------------------------------ a second run
\* The script is run again over the same range and calls the orchestrator
\* for the same month, live or dry: the wiki is as the first run left it,
\* the locals of the first call are gone.  run keeps the days the first run
\* had tasks for and whether its save of the source page succeeded.
Rerun ==
    /\ mpc = "ret" /\ run.n = 1
    /\ run' = [n |-> 2, days |-> {tasks[i].day : i \in 1..Len(tasks)},
               archived |-> (archived = "ok")]
    /\ mpc' = "L86"
    /\ dry_run' \in BOOLEAN
    /\ wikitext' = <<>> /\ tasks' = <<>> /\ was_section_skipped' = FALSE
    /\ archived' = "none" /\ narchive' = 0 /\ w' = <<>>
    /\ pages0' = pages
    /\ UNCHANGED <<argv_live, now, is_dry_run, year, month_num, visited, src,
                   pages, print_lock>>

\* Two calls of the orchestrator for April 2010, the first one live.
InitRerun == InitMonth /\ ~dry_run

NextRerun ==
    \/ Fetch \/ Dispatch \/ Join \/ Archive
    \/ \E i \in 1..Len(w) : AcquirePrint(i)
    \/ \E i \in 1..Len(w) : ReleasePrint(i)
    \/ \E i \in 1..Len(w) : Exists(i)
    \/ \E i \in 1..Len(w) : Create(i)
    \/ \E i \in 1..Len(w) : Protection(i)
    \/ \E i \in 1..Len(w) : Protect(i)
    \/ Rerun

SpecRerun == InitRerun /\ [][NextRerun]_vars

\* the page of day d is created and protected
Complete(d) == pages[d].exists /\ pages[d].edit = "sysop"

\* C13: after a live run, a later live run over the same month in which
\* every backend call succeeds leaves the page of every day the first run
\* had a task for created and protected.
RerunCompletes ==
    (run.n = 2 /\ mpc = "ret" /\ ~dry_run) => \A d \in run.days : Complete(d)

\* the same, for the first runs that did not overwrite the source page
RerunCompletesUnlessArchived ==
    (run.n = 2 /\ mpc = "ret" /\ ~dry_run /\ ~run.archived)
        => \A d \in run.days : Complete(d)

\* ------------------------------------------------------------ one day's task
\* C14: in live mode, when the save of a new day page raised, the task
\* returns: it is at its last output or done, it has made no protection
\* query and no protect call.
CreateFailureSkipsProtection ==
    \A i \in 1..Len(w) :
        w[i].saved = "failed" =>
            /\ w[i].pc \in {"print", "printing", "done"} /\ w[i].after = "done"
            /\ w[i].current_protection = "?"
            /\ w[i].protected = "none" /\ w[i].nprotect = 0

\* a task whose save raised has returned, the page still absent and open
CreateFailureSkipsProtection_witness ==
    \E i \in 1..Len(w) :
        /\ w[i].saved = "failed" /\ w[i].pc = "done" /\ ~tasks[i].dry_run
        /\ ~pages[tasks[i].day].exists /\ pages[tasks[i].day].edit = ""

\* C15 as stated: a task that found its page existing issues no save and
\* never enters the creation step, the page's text stays as it was, and in
\* live mode the task applies the protection if and only if the page's edit
\* protection was not already sysop.
ExistingPageProtectedIffNotElevated ==
    \A i \in 1..Len(w) :
        w[i].page_exists = "yes" =>
            /\ w[i].saved = "none" /\ w[i].nsave = 0
            /\ w[i].pc # "L44" /\ w[i].after # "L44"
            /\ pages0[tasks[i].day].exists
                  => pages[tasks[i].day].text = pages0[tasks[i].day].text
            /\ (~tasks[i].dry_run /\ w[i].pc = "done" /\ OwnDay(i))
                  => (w[i].nprotect = 1 <=> pages0[tasks[i].day].edit # "sysop")

\* C15, amended: the protection is applied if and only if the protection
\* query answered and its answer was an edit protection other than sysop; a
\* query that raised leaves the page as it was.
ExistingPageNeverOverwritten ==
    \A i \in 1..Len(w) :
        w[i].page_exists = "yes" =>
            /\ w[i].saved = "none" /\ w[i].nsave = 0
            /\ w[i].pc # "L44" /\ w[i].after # "L44"
            /\ pages0[tasks[i].day].exists
                  => pages[tasks[i].day].text = pages0[tasks[i].day].text
            /\ (~tasks[i].dry_run /\ w[i].pc = "done")
                  => /\ w[i].current_protection # "?"
                     /\ w[i].nprotect = 1 <=> w[i].current_protection = ""
            /\ (~tasks[i].dry_run /\ w[i].pc = "done" /\ OwnDay(i))
                  => /\ w[i].current_protection
                           \in {"raised", pages0[tasks[i].day].edit}
                     /\ w[i].nprotect = 1
                           <=> (w[i].current_protection # "raised"
                                /\ pages0[tasks[i].day].edit # "sysop")

\* a live task found its page existing and unprotected and protected it;
\* the text of the page is the old one
ExistingPageNeverOverwritten_witness ==
    \E i \in 1..Len(w) :
        /\ ~tasks[i].dry_run /\ w[i].pc = "done" /\ w[i].page_exists = "yes"
        /\ OwnDay(i) /\ pages0[tasks[i].day].edit = ""
        /\ w[i].protected = "ok" /\ pages[tasks[i].day].edit = "sysop"
        /\ pages[tasks[i].day].text = <<"old">>

\* ------------------------------------------------------------ task building
\* the text between the heading at p and the next heading
TextAfter(text, p) ==
    [q \in 1..(NextHeading(text, p) - p - 1) |-> text[p + q].s]

\* the numerals of the headings that are followed by the marker
MarkedDays(text) == {text[p].s : p \in {q \in 1..Len(text) : text[q].h /\ MarkerAfter(text, q)}}

\* some heading of the text is followed by text that is not blank and has
\* no marker
HasInvalidSection(text) ==
    \E p \in 1..Len(text) :
        text[p].h /\ ~BlankAfter(text, p) /\ ~MarkerAfter(text, p)

\* C16: the pool has one thread per task; there is exactly one task per
\* section with the marker, carrying its day and its trimmed content, and
\* none for a section without it; the page of a day that has no section
\* with the marker is never touched; in a month that mixes sections with
\* and without the marker the tasks are still run to their end and the
\* source page is not rewritten.
TaskBuilding ==
    /\ w # <<>> => Len(w) = Len(tasks)
    /\ mpc = "ret" =>
         LET marked == MarkedHeadingPositions(wikitext)
         IN /\ Len(tasks) = Len(marked)
            /\ \A k \in 1..Len(tasks) :
                  /\ tasks[k].day = wikitext[marked[k]].s
                  /\ tasks[k].content = Strip(TextAfter(wikitext, marked[k]))
            /\ \A d \in Days \ MarkedDays(wikitext) : pages[d] = pages0[d]
            /\ (HasInvalidSection(wikitext) /\ tasks # <<>>) =>
                  /\ Len(w) = Len(tasks)
                  /\ \A i \in 1..Len(w) : w[i].pc = "done" /\ w[i].page_exists # "?"
                  /\ archived = "none" /\ narchive = 0 /\ src.text = wikitext

\* a live month of a section with the marker and one without: the first
\* day's page was created and protected, the second day's page is as it
\* was, the source page was not rewritten
TaskBuilding_witness ==
    /\ mpc = "ret" /\ ~dry_run /\ Len(w) = 1
    /\ HasInvalidSection(wikitext)
    /\ w[1].saved = "ok" /\ w[1].protected = "ok"
    /\ \E d \in Days \ MarkedDays(wikitext) :
         \E p \in 1..Len(wikitext) : wikitext[p].h /\ wikitext[p].s = d
    /\ archived = "none" /\ src.text = wikitext

\* ------------------------------------------------------------ targets, retries
\* two tasks of the month have saved the same page in this run
SavedTwice ==
    \E i, j \in 1..Len(w) :
        /\ i # j /\ tasks[i].day = tasks[j].day
        /\ w[i].saved = "ok" /\ w[j].saved = "ok"

\* C17: the tasks dispatched for one month have pairwise distinct target
\* pages, and no page is saved by two of them in the same run.
ConcurrentTargetsDistinct == DistinctTargets /\ ~SavedTwice

\* C18: within one run a task issues at most one save and at most one
\* protect call and the month at most one save of its source page; a call
\* that raised was the only one, and what made it has moved on.
NoRetries ==
    /\ \A i \in 1..Len(w) :
         /\ w[i].nsave <= 1 /\ w[i].nprotect <= 1
         /\ w[i].nsave = 1 <=> w[i].saved # "none"
         /\ w[i].nprotect = 1 <=> w[i].protected # "none"
         /\ w[i].saved = "failed" => w[i].pc # "L44" /\ w[i].after # "L44"
         /\ w[i].protected = "failed" => w[i].pc # "L64" /\ w[i].after # "L64"
    /\ narchive <= 1
    /\ narchive = 1 <=> archived # "none"
    /\ archived = "failed" => mpc = "ret"

\* a run at its end in which a save of a day page, a protect call and the
\* save of the source page each raised, each made once
NoRetries_witness ==
    /\ mpc = "ret" /\ archived = "failed" /\ narchive = 1 /\ Len(w) = 2
    /\ w[1].saved = "failed" /\ w[1].nsave = 1
    /\ w[2].protected = "failed" /\ w[2].nprotect = 1

\* C19: once the source page of a month was overwritten with the archive
\* text by a run, a later call of the orchestrator for that month, live or
\* dry, reads that text, finds no heading in it, builds no task, starts no
\* pool thread and returns without any backend write: the day pages and the
\* source page stay as they were and the source page is not saved again.
ArchivedMonthInert ==
    (run.n = 2 /\ run.archived) =>
        /\ src.text = NewContent
        /\ mpc \in {"L86", "ret"}
        /\ tasks = <<>> /\ w = <<>>
        /\ ~WriteIssued /\ narchive = 0 /\ pages = pages0
        /\ mpc = "ret" =>
              /\ wikitext = NewContent
              /\ HeadingPositions(wikitext) = <<>>
              /\ ~was_section_skipped

\* the second call, live, has returned for a month whose first run had two
\* tasks and archived the source page
ArchivedMonthInert_witness ==
    /\ run.n = 2 /\ run.archived /\ run.days = {"1", "2"}
    /\ mpc = "ret" /\ ~dry_run

\* ------------------------------------------------------------ termination
\* the largest number of tasks a text can give: a heading and a chunk each
MaxTasks == MaxTokens \div 2

\* Scheduling: the main thread and every pool thread that can take a step
\* eventually takes one (the interpreter switches between runnable threads),
\* and every backend call returns, normally or by raising.
Fairness ==
    /\ WF_vars(Fetch) /\ WF_vars(Dispatch) /\ WF_vars(Join) /\ WF_vars(Archive)
    /\ \A i \in 1..MaxTasks : WF_vars(process_one_day(i))

\* One call of the orchestrator for a month text of two sections with the
\* marker, for two different days or twice the same day, live or dry, the
\* day pages in any state.
TwoTaskTexts ==
    {<<[h |-> TRUE, s |-> d1], [h |-> FALSE, s |-> "{{wotd"],
       [h |-> TRUE, s |-> d2], [h |-> FALSE, s |-> "{{WOTD"]>>
     : d1 \in Days, d2 \in Days}
InitMonthFair == InitMonth /\ src.exists /\ src.text \in TwoTaskTexts

SpecMonthFair == InitMonthFair /\ [][NextMonth]_vars /\ Fairness

\* the lock is held only by a thread that is inside a with print_lock
\* block, and a thread at a backend call does not hold it
LockDiscipline ==
    /\ print_lock # 0 =>
         print_lock \in 1..Len(w) /\ w[print_lock].pc = "printing"
    /\ \A i \in 1..Len(w) : w[i].pc = "printing" => print_lock = i

\* C20: the lock is only ever held inside an output block, never across a
\* backend call, and the call of the orchestrator reaches its return with
\* every task at its end and the lock free: every holder has released the
\* lock, every thread that waited for it has got it, the barrier was passed.
TerminatesWithoutDeadlock ==
    /\ []LockDiscipline
    /\ <>(mpc = "ret" /\ print_lock = 0 /\ AllTasksComplete(w))

\* two threads, one holding the lock at its output, the other waiting for it
TerminatesWithoutDeadlock_witness ==
    /\ Len(w) = 2 /\ print_lock = 1
    /\ w[1].pc = "printing" /\ w[2].pc = "print" /\ w[2].after # "L35"
====
